---- MODULE Spec2Model ----
(***************************************************************************)
(* SEA International Trade Dashboard (src/app.py).                         *)
(*                                                                         *)
(* The module-level loader reads every CSV file of the data folder,        *)
(* concatenates them, drops incomplete rows, renames the columns by        *)
(* position and coerces the types; the Dash callbacks then compute their   *)
(* figures, KPI strings and table rows from the shared frame sea_data.     *)
(*                                                                         *)
(* Conventions of the model                                                *)
(*  - a CSV cell is Num(n), Str(s) or NaN (an empty cell);                 *)
(*  - USD amounts are fixed-point numbers: the integer n stands for        *)
(*    n / Scale dollars, so that fractional amounts exist and int(v)       *)
(*    in kpis truncates something;                                         *)
(*  - label order (astype("category") sorts the labels) is the position    *)
(*    of a label in the sorted lists CountryNames and PartnerNames;        *)
(*  - what depends on the installed libraries and not on app.py is a       *)
(*    variable fixed at start-up: observed (the default of                 *)
(*    DataFrame.groupby(observed=...) for categorical keys: False before   *)
(*    pandas 3, True from pandas 3 on), sort_ties (the order in which the  *)
(*    unstable default sort of sort_values leaves equal keys) and          *)
(*    lapack_nan (what numpy.linalg.lstsq does with a NaN matrix);         *)
(*  - Spec, SpecLoad and SpecWide call the callbacks directly with any     *)
(*    filter values (the result is in out); SpecPage drives them from the  *)
(*    two filter widgets as Dash does (the results are in shown).          *)
(***************************************************************************)
EXTENDS Integers, Sequences, FiniteSets, TLC

VARIABLES
    file_list,        \* the CSV files of FOLDER_PATH, as read by pd.read_csv
    pc,               \* "start" | "running" | "crashed"
    error,            \* the exception that ended start-up, or "none"
    sea_data,         \* the shared frame: a sequence of records
    COUNTRY_CHOICES,  \* the options of the country dropdown
    YEAR_MIN,         \* the ends of the year slider
    YEAR_MAX,
    observed,         \* groupby's default for categorical keys in this build
    sort_ties,        \* "first" | "last": how sort_values orders equal keys
    lapack_nan,       \* "raise" | "nan": lstsq on a matrix that holds NaN
    out,              \* the last callback called directly, its arguments and return
    selected_country, \* the value of the country dropdown ("none": no page yet)
    selected_year,    \* the value of the year slider
    pending,          \* per view, the callback request waiting to run
    shown,            \* per view, what the page displays
    changes           \* how many times the user has moved a filter

vars == <<file_list, pc, error, sea_data, COUNTRY_CHOICES, YEAR_MIN, YEAR_MAX,
          observed, sort_ties, lapack_nan, out,
          selected_country, selected_year, pending, shown, changes>>

\* the state of the page
page == <<selected_country, selected_year, pending, shown, changes>>

---------------------------------------------------------------------------
(* Bounds of the model *)

\* amounts are multiples of 1/Scale dollars
Scale == 2
\* rows of the single file of the aggregation specification
MaxRows == 3
\* files of the loader specification (of at most one row each)
MaxFiles == 2
\* partners of the wide specification (one more than the top-10 cut)
NumPartners == 11
\* filter changes of the page specification
MaxChanges == 1

---------------------------------------------------------------------------
(* Generic helpers *)

Range(s) == {s[k] : k \in 1..Len(s)}

Max(a, b) == IF a >= b THEN a ELSE b
Min(a, b) == IF a <= b THEN a ELSE b

RECURSIVE SumSeq(_)
SumSeq(s) == IF s = <<>> THEN 0 ELSE Head(s) + SumSeq(Tail(s))

RECURSIVE SetMax(_)
SetMax(S) == LET x == CHOOSE x \in S : TRUE
             IN IF S = {x} THEN x ELSE Max(x, SetMax(S \ {x}))

RECURSIVE SetMin(_)
SetMin(S) == LET x == CHOOSE x \in S : TRUE
             IN IF S = {x} THEN x ELSE Min(x, SetMin(S \ {x}))

\* sequences over S of length at most n
SeqUpTo(S, n) == UNION {[1..k -> S] : k \in 0..n}

\* position of x in the sequence s (0 when absent)
IndexOf(s, x) == IF x \in Range(s) THEN CHOOSE k \in 1..Len(s) : s[k] = x ELSE 0

\* the members of the set S, in the order they have in the sequence order
RECURSIVE OrderBy(_, _)
OrderBy(order, S) ==
    IF order = <<>> THEN <<>>
    ELSE (IF Head(order) \in S THEN <<Head(order)>> ELSE <<>>) \o OrderBy(Tail(order), S)

\* the ascending sequence of a finite set of integers
RECURSIVE SortedInts(_)
SortedInts(S) == IF S = {} THEN <<>>
                 ELSE LET m == SetMin(S) IN <<m>> \o SortedInts(S \ {m})

\* m / d truncated toward zero, as Python's int() does on a float
TruncDiv(m, d) == IF m >= 0 THEN m \div d ELSE -((-m) \div d)

Abs(n) == IF n >= 0 THEN n ELSE -n

RECURSIVE Gcd(_, _)
Gcd(a, b) == IF b = 0 THEN a ELSE Gcd(b, a % b)

---------------------------------------------------------------------------
(* Labels.  Both lists are in sorted (lexical) order, the order            *)
(* astype("category") gives the categories of a label column.              *)

CountryNames == <<"Brunei", "Indonesia", "Malaysia", "Vietnam">>

PartnerNames == <<"Australia", "Belgium", "China", "Denmark", "Egypt", "France",
                  "Germany", "Hungary", "India", "Japan", "Kenya", "Laos",
                  "Mexico">>

CodeOf(name) == <<"code", name>>

---------------------------------------------------------------------------
(* CSV cells and files *)

Num(n) == [t |-> "num", n |-> n]
Str(s) == [t |-> "str", s |-> s]
NaN == [t |-> "nan"]

\* The header of the files the dashboard is written for (section 6 of the
\* interface: one row per (country, partner, year) observation).
Header8 == <<"country", "country_code", "partner_name", "partner_code",
             "year", "export_USD", "import_USD", "trade_balance_USD">>

\* a file that lacks the last column
Header7 == SubSeq(Header8, 1, 7)

\* a file with one column more
Header9 == Header8 \o <<"note">>

\* one CSV row under a header: the cells of the observation obs, an empty
\* cell in the column miss (if any), and a remark in a "note" column
CsvRow(header, obs, miss) ==
    [c \in Range(header) |->
        IF c = miss THEN NaN
        ELSE CASE c = "country" -> Str(obs.country)
               [] c = "country_code" -> Str(CodeOf(obs.country))
               [] c = "partner_name" -> Str(obs.partner)
               [] c = "partner_code" -> Str(CodeOf(obs.partner))
               [] c = "year" -> obs.year
               [] c = "export_USD" -> Num(obs.e)
               [] c = "import_USD" -> Num(obs.i)
               [] c = "trade_balance_USD" -> Num(obs.b)
               [] OTHER -> Str("remark")]

Obs(country, partner, year, e, i, b) ==
    [country |-> country, partner |-> partner, year |-> year, e |-> e, i |-> i, b |-> b]

CsvFile(header, rows) == [columns |-> header, rows |-> rows]

---------------------------------------------------------------------------
(* Load & merge data: src/app.py lines 20-56 *)

\* pd.concat(dfs, ignore_index=True): the columns are the union of the
\* files' columns in order of first appearance (an outer join that never
\* fails on differing columns); a row has NaN in a column its file lacks.
\* An empty list of frames raises ValueError.
RECURSIVE ConcatColumns(_)
ConcatColumns(dfs) ==
    IF dfs = <<>> THEN <<>>
    ELSE LET rest == ConcatColumns(SubSeq(dfs, 1, Len(dfs) - 1))
             last == dfs[Len(dfs)].columns
         IN rest \o SelectSeq(last, LAMBDA c : c \notin Range(rest))

RECURSIVE ConcatRows(_, _)
ConcatRows(dfs, columns) ==
    IF dfs = <<>> THEN <<>>
    ELSE LET f == Head(dfs)
             widen(r) == [c \in Range(columns) |->
                             IF c \in Range(f.columns) THEN r[c] ELSE NaN]
         IN [k \in 1..Len(f.rows) |-> widen(f.rows[k])] \o ConcatRows(Tail(dfs), columns)

\* pd.concat(dfs, join="inner"): only the columns every file has
concat_Inner(dfs) ==
    LET columns == SelectSeq(ConcatColumns(dfs),
                             LAMBDA c : \A k \in 1..Len(dfs) : c \in Range(dfs[k].columns))
    IN [columns |-> columns, rows |-> ConcatRows(dfs, columns)]

concat(dfs) == LET columns == ConcatColumns(dfs)
               IN [columns |-> columns, rows |-> ConcatRows(dfs, columns)]

\* sea_data.dropna(axis=0, how="any")
dropna(df) ==
    [columns |-> df.columns,
     rows |-> SelectSeq(df.rows, LAMBDA r : \A c \in Range(df.columns) : r[c] # NaN)]

\* The names assigned to sea_data.columns
NewColumns == <<"country", "country_code", "partner_name", "partner_name_code",
                "year", "export_USD", "import_USD", "trade_balance_USD">>

\* sea_data.columns = [...]: the k-th column takes the k-th name, whatever
\* it was called; a different number of columns raises ValueError.
rename(df) ==
    [columns |-> NewColumns,
     rows |-> [k \in 1..Len(df.rows) |->
                 [c \in Range(NewColumns) |->
                     df.rows[k][df.columns[IndexOf(NewColumns, c)]]]]]

\* the strings pd.to_numeric can parse, with their values
NumericStrings == [s \in {"2021"} |-> 2021]

\* pd.to_numeric(cell, errors="coerce"): a number, or NaN for what does not parse
to_numeric(cell) ==
    IF cell.t = "num" THEN cell
    ELSE IF cell.t = "str" /\ cell.s \in DOMAIN NumericStrings
         THEN Num(NumericStrings[cell.s])
         ELSE NaN

Plain(cell) == IF cell.t = "num" THEN cell.n ELSE cell.s

\* the typed record of a cleaned row (year already numeric)
Typed(r, year) ==
    [country |-> Plain(r["country"]),
     country_code |-> Plain(r["country_code"]),
     partner_name |-> Plain(r["partner_name"]),
     partner_name_code |-> Plain(r["partner_name_code"]),
     year |-> year,
     export_USD |-> Plain(r["export_USD"]),
     import_USD |-> Plain(r["import_USD"]),
     trade_balance_USD |-> Plain(r["trade_balance_USD"])]

\* sea_data["country"].cat.categories: the sorted labels present
cat_categories(data, names, col) ==
    OrderBy(names, {data[k][col] : k \in 1..Len(data)})

priority == <<"Malaysia", "Indonesia", "Singapore", "Thailand">>

others(data) == SelectSeq(cat_categories(data, CountryNames, "country"),
                          LAMBDA c : c \notin Range(priority))

\* The whole of the start-up script, as the state it leaves (or the
\* exception that ends it).
LoadResult(files) ==
    LET crashed(e) == [pc |-> "crashed", error |-> e, sea_data |-> <<>>,
                       COUNTRY_CHOICES |-> <<>>, YEAR_MIN |-> 0, YEAR_MAX |-> 0]
    IN
    IF files = <<>> THEN crashed("ValueError: No objects to concatenate")
    ELSE
    LET cleaned == dropna(concat(files)) IN
    IF Len(cleaned.columns) # Len(NewColumns)
    THEN crashed("ValueError: Length mismatch")
    ELSE
    LET named == rename(cleaned)
        years == [k \in 1..Len(named.rows) |-> to_numeric(named.rows[k]["year"])]
    IN
    IF \E k \in 1..Len(years) : years[k] = NaN
    THEN crashed("IntCastingNaNError")
    ELSE
    LET data == [k \in 1..Len(named.rows) |-> Typed(named.rows[k], years[k].n)] IN
    IF data = <<>> THEN crashed("ValueError: cannot convert float NaN to integer")
    ELSE
    LET ys == {data[k].year : k \in 1..Len(data)} IN
    [pc |-> "running", error |-> "none", sea_data |-> data,
     COUNTRY_CHOICES |-> priority \o others(data),
     YEAR_MIN |-> Min(SetMin(ys), 2015),
     YEAR_MAX |-> Max(SetMax(ys), 2022)]

Load ==
    /\ pc = "start"
    /\ LET r == LoadResult(file_list) IN
        /\ pc' = r.pc
        /\ error' = r.error
        /\ sea_data' = r.sea_data
        /\ COUNTRY_CHOICES' = r.COUNTRY_CHOICES
        /\ YEAR_MIN' = r.YEAR_MIN
        /\ YEAR_MAX' = r.YEAR_MAX
    /\ UNCHANGED <<file_list, observed, sort_ties, lapack_nan, out>>
    /\ UNCHANGED page

---------------------------------------------------------------------------
(* Frame operations shared by the callbacks *)

\* a filter on the country alone
Filt_AnyYear(data, country, year) ==
    SelectSeq(data, LAMBDA r : r.country = country)

\* sea_data[(sea_data["country"] == country) & (sea_data["year"] == year)]
Filt(data, country, year) ==
    SelectSeq(data, LAMBDA r : r.country = country /\ r.year = year)

\* df[col].sum() over the rows of df whose column key holds label
GroupSum(df, key, label, col) ==
    SumSeq([k \in 1..Len(SelectSeq(df, LAMBDA r : r[key] = label)) |->
               SelectSeq(df, LAMBDA r : r[key] = label)[k][col]])

\* The group labels of df.groupby(col) for the categorical column col, in
\* the order of the result (groupby sorts its keys, and a categorical key
\* sorts in category order).  Row selection keeps the categories of
\* sea_data, so with observed=False every label of the whole frame is a
\* group, with the sum 0 where df has no such row.
GroupLabels(data, df, names, col) ==
    IF observed THEN cat_categories(df, names, col)
    ELSE cat_categories(data, names, col)

\* left.merge(right, on=on, how="left"): every left row, once per matching
\* right row; the right columns hold Num(value), or NaN when no right row
\* matches
MergeLeft(left, right, on, rightCols) ==
    LET joined(l) ==
            LET ms == SelectSeq(right, LAMBDA r : \A c \in on : r[c] = l[c])
            IN IF ms = <<>>
               THEN <<[c \in (DOMAIN l) \cup rightCols |->
                         IF c \in DOMAIN l THEN l[c] ELSE NaN]>>
               ELSE [k \in 1..Len(ms) |->
                      [c \in (DOMAIN l) \cup rightCols |->
                         IF c \in DOMAIN l THEN l[c] ELSE Num(ms[k][c])]]
        F[k \in 0..Len(left)] ==
            IF k = 0 THEN <<>> ELSE F[k - 1] \o joined(left[k])
    IN F[Len(left)]

\* a + b on a column of numbers and a merged column: NaN where b is NaN
AddCell(a, cell) == IF cell = NaN THEN NaN ELSE Num(a + cell.n)

\* The index of the row sort_values(col, ascending=False) puts first among
\* the rows left: the largest key; among equal keys the default
\* (unstable) sort kind promises no order, and sort_ties says which end
\* of the original order this build takes.
FirstDesc(df, S, col) ==
    CHOOSE k \in S :
        \A j \in S \ {k} :
            \/ df[k][col] > df[j][col]
            \/ /\ df[k][col] = df[j][col]
               /\ IF sort_ties = "first" THEN k < j ELSE k > j

RECURSIVE SortDescFrom(_, _, _)
SortDescFrom(df, S, col) ==
    IF S = {} THEN <<>>
    ELSE LET k == FirstDesc(df, S, col)
         IN <<df[k]>> \o SortDescFrom(df, S \ {k}, col)

sort_values_desc(df, col) == SortDescFrom(df, 1..Len(df), col)

\* head that never cuts
head_All(df, n) == df

head(df, n) == SubSeq(df, 1, Min(n, Len(df)))

---------------------------------------------------------------------------
(* Value boxes: src/app.py lines 482-490 *)

\* the digit groups of n >= 0, most significant first ("1,234" is <<1, 234>>)
RECURSIVE Groups(_)
Groups(n) == IF n < 1000 THEN <<n>> ELSE Groups(n \div 1000) \o <<n % 1000>>

\* fmt = lambda v: f"{int(v):,}" on the amount units / Scale
fmt(units) ==
    LET v == TruncDiv(units, Scale)
    IN [neg |-> v < 0, groups |-> Groups(Abs(v))]

\* kpis with the balance taken from the trade_balance_USD column
kpis_BalanceColumn(data, country, year) ==
    LET df == Filt(data, country, year)
        total_trade == SumSeq([k \in 1..Len(df) |-> df[k].export_USD + df[k].import_USD])
        total_export == SumSeq([k \in 1..Len(df) |-> df[k].export_USD])
        total_import == SumSeq([k \in 1..Len(df) |-> df[k].import_USD])
        trade_balance == SumSeq([k \in 1..Len(df) |-> df[k].trade_balance_USD])
    IN [error |-> "none",
        ret |-> <<fmt(total_trade), fmt(total_export), fmt(total_import), fmt(trade_balance)>>,
        sea_data |-> data]

kpis(data, country, year) ==
    LET df == Filt(data, country, year)
        total_trade == SumSeq([k \in 1..Len(df) |-> df[k].export_USD + df[k].import_USD])
        total_export == SumSeq([k \in 1..Len(df) |-> df[k].export_USD])
        total_import == SumSeq([k \in 1..Len(df) |-> df[k].import_USD])
        trade_balance == SumSeq([k \in 1..Len(df) |-> df[k].export_USD - df[k].import_USD])
    IN [error |-> "none",
        ret |-> <<fmt(total_trade), fmt(total_export), fmt(total_import), fmt(trade_balance)>>,
        sea_data |-> data]

---------------------------------------------------------------------------
(* Chart E, the filtered table: src/app.py lines 500-516 *)

TableColumns == <<"country", "partner_name", "year", "export_USD", "import_USD">>

\* update_table filtering on the country alone
update_table_AnyYear(data, country, year) ==
    LET filt == SelectSeq(data, LAMBDA r : r.country = country)
        full == [k \in 1..Len(filt) |->
                   [c \in Range(TableColumns) \cup {"trade_value"} |->
                      IF c = "trade_value"
                      THEN filt[k]["export_USD"] + filt[k]["import_USD"]
                      ELSE filt[k][c]]]
    IN [error |-> "none",
        ret |-> [data |-> full,
                 columns |-> TableColumns \o <<"trade_value">>,
                 title |-> <<country, year>>],
        sea_data |-> data]

\* update_table writing the new column into the shared frame
update_table_InPlace(data, country, year) ==
    LET widened == [k \in 1..Len(data) |->
                      [c \in (DOMAIN data[k]) \cup {"trade_value"} |->
                         IF c = "trade_value"
                         THEN data[k]["export_USD"] + data[k]["import_USD"]
                         ELSE data[k][c]]]
        filt == Filt(widened, country, year)
        full == [k \in 1..Len(filt) |->
                   [c \in Range(TableColumns) \cup {"trade_value"} |-> filt[k][c]]]
    IN [error |-> "none",
        ret |-> [data |-> full,
                 columns |-> TableColumns \o <<"trade_value">>,
                 title |-> <<country, year>>],
        sea_data |-> widened]

update_table(data, country, year) ==
    LET filt == Filt(data, country, year)
        \* filt[[...]].copy(): a new frame with the five columns
        tbl == [k \in 1..Len(filt) |-> [c \in Range(TableColumns) |-> filt[k][c]]]
        \* tbl["trade_value"] = ...: a sixth column, on the copy
        full == [k \in 1..Len(tbl) |->
                   [c \in Range(TableColumns) \cup {"trade_value"} |->
                      IF c = "trade_value"
                      THEN tbl[k]["export_USD"] + tbl[k]["import_USD"]
                      ELSE tbl[k][c]]]
    IN [error |-> "none",
        ret |-> [data |-> full,
                 columns |-> TableColumns \o <<"trade_value">>,
                 title |-> <<country, year>>],
        sea_data |-> data]

---------------------------------------------------------------------------
(* Chart F, the top 10 partners: src/app.py lines 524-550 *)

TopK == 10

update_top_partners(data, country, year) ==
    LET filt == Filt(data, country, year)
        labels == GroupLabels(data, filt, PartnerNames, "partner_name")
        top_export == [k \in 1..Len(labels) |->
                         [partner_name |-> labels[k],
                          total_export |-> GroupSum(filt, "partner_name", labels[k], "export_USD")]]
        top_import == [k \in 1..Len(labels) |->
                         [partner_name |-> labels[k],
                          total_import |-> GroupSum(filt, "partner_name", labels[k], "import_USD")]]
        merged == MergeLeft(top_export, top_import, {"partner_name"}, {"total_import"})
        top == [k \in 1..Len(merged) |->
                  [partner_name |-> merged[k].partner_name,
                   total_export |-> merged[k].total_export,
                   total_import |-> merged[k].total_import.n,
                   total_trade |-> AddCell(merged[k].total_export, merged[k].total_import).n]]
    IN [error |-> "none",
        ret |-> head(sort_values_desc(top, "total_trade"), TopK),
        sea_data |-> data]

---------------------------------------------------------------------------
(* Chart G, the partner contribution map: src/app.py lines 558-617 *)

chart_g(data, country, year) ==
    LET filtered_data == Filt(data, country, year)
        labels == GroupLabels(data, filtered_data, PartnerNames, "partner_name")
        partner_trade ==
            [k \in 1..Len(labels) |->
               LET ex == GroupSum(filtered_data, "partner_name", labels[k], "export_USD")
                   im == GroupSum(filtered_data, "partner_name", labels[k], "import_USD")
               IN [partner_name |-> labels[k], total_export |-> ex,
                   total_import |-> im, total_trade |-> ex + im]]
    IN [error |-> "none", ret |-> partner_trade, sea_data |-> data]

---------------------------------------------------------------------------
(* Chart A, total trade by country and year: src/app.py lines 360-385 *)

\* what pd.Categorical(values, categories=priority) makes of a label that
\* is not one of its categories
NaNLabel == "NaN"

ToPriority(label) == IF label \in Range(priority) THEN label ELSE NaNLabel

\* The keys of df.groupby([country, year]) (countryFirst) or
\* df.groupby([year, country]), sorted as groupby sorts them.  With
\* observed=False the result is reindexed to the product of all the
\* categories of the country column with the years present in df.
PairKeys(data, df, countryFirst) ==
    LET cs == IF observed THEN cat_categories(df, CountryNames, "country")
              ELSE cat_categories(data, CountryNames, "country")
        ys == SortedInts({df[k].year : k \in 1..Len(df)})
        present(c, y) == \E k \in 1..Len(df) : df[k].country = c /\ df[k].year = y
        keep(c, y) == (~observed) \/ present(c, y)
        outer == IF countryFirst THEN Len(cs) ELSE Len(ys)
        inner == IF countryFirst THEN Len(ys) ELSE Len(cs)
        pair(a, b) == IF countryFirst THEN [country |-> cs[a], year |-> ys[b]]
                      ELSE [country |-> cs[b], year |-> ys[a]]
        all == [n \in 1..(outer * inner) |->
                   pair(((n - 1) \div inner) + 1, ((n - 1) % inner) + 1)]
    IN SelectSeq(all, LAMBDA p : keep(p.country, p.year))

PairSum(df, p, col) ==
    SumSeq([k \in 1..Len(SelectSeq(df, LAMBDA r : r.country = p.country /\ r.year = p.year)) |->
               SelectSeq(df, LAMBDA r : r.country = p.country /\ r.year = p.year)[k][col]])

\* the traces px.bar draws for color="country": one per country of df (rows
\* whose country is NaN belong to no trace), the countries of
\* category_orders first and in that order
\* the traces in the order of the rows of df (the sorted labels) instead of
\* the order of category_orders
BarTraces_RowOrder(df) ==
    LET names == SelectSeq(CountryNames, LAMBDA c : \E k \in 1..Len(df) : df[k].country = c)
    IN [n \in 1..Len(names) |->
          LET rows == SelectSeq(df, LAMBDA r : r.country = names[n])
          IN [name |-> names[n],
              x |-> [k \in 1..Len(rows) |-> rows[k].year],
              y |-> [k \in 1..Len(rows) |-> rows[k].trade_value]]]

BarTraces(df) ==
    LET names == SelectSeq(priority, LAMBDA c : \E k \in 1..Len(df) : df[k].country = c)
    IN [n \in 1..Len(names) |->
          LET rows == SelectSeq(df, LAMBDA r : r.country = names[n])
          IN [name |-> names[n],
              x |-> [k \in 1..Len(rows) |-> rows[k].year],
              y |-> [k \in 1..Len(rows) |-> rows[k].trade_value]]]

chart_a(data) ==
    LET sel == SelectSeq(data, LAMBDA r : r.country \in Range(priority))
        keys == PairKeys(data, sel, TRUE)
        df0 == [k \in 1..Len(keys) |->
                  [country |-> keys[k].country, year |-> keys[k].year,
                   trade_value |-> PairSum(sel, keys[k], "export_USD")]]
        imp == [k \in 1..Len(keys) |->
                  [country |-> keys[k].country, year |-> keys[k].year,
                   import_USD |-> PairSum(sel, keys[k], "import_USD")]]
        merged == MergeLeft(df0, imp, {"country", "year"}, {"import_USD"})
        df == [k \in 1..Len(merged) |->
                 [country |-> ToPriority(merged[k].country),
                  year |-> merged[k].year,
                  import_USD |-> merged[k].import_USD.n,
                  trade_value |-> AddCell(merged[k].trade_value, merged[k].import_USD).n]]
    IN [error |-> "none",
        ret |-> [df |-> df, traces |-> BarTraces(df)],
        sea_data |-> data]

---------------------------------------------------------------------------
(* Chart B, the balance heatmap: src/app.py lines 392-418 *)

\* df.pivot(index="country", columns="year", values=...).sort_index():
\* one row per country value of df in the order of the categorical (NaN
\* last), one column per year, NaN in a cell no row of df fills; two rows
\* of df with the same (country, year) raise ValueError.
pivot(df) ==
    LET dup == \E j, k \in 1..Len(df) :
                  j # k /\ df[j].country = df[k].country /\ df[j].year = df[k].year
        index == OrderBy(priority \o <<NaNLabel>>, {df[k].country : k \in 1..Len(df)})
        columns == SortedInts({df[k].year : k \in 1..Len(df)})
        cells == [p \in Range(index) \X Range(columns) |->
                    IF \E k \in 1..Len(df) : df[k].country = p[1] /\ df[k].year = p[2]
                    THEN Num((CHOOSE r \in Range(df) :
                                 r.country = p[1] /\ r.year = p[2]).trade_balance_USD)
                    ELSE NaN]
    IN IF dup
       THEN [error |-> "ValueError: Index contains duplicate entries, cannot reshape",
             ret |-> <<>>]
       ELSE [error |-> "none",
             ret |-> [index |-> index, columns |-> columns, z |-> cells]]

chart_b(data) ==
    LET keys == PairKeys(data, data, FALSE)
        df == [k \in 1..Len(keys) |->
                 [year |-> keys[k].year,
                  country |-> ToPriority(keys[k].country),
                  trade_balance_USD |-> PairSum(data, keys[k], "trade_balance_USD")]]
        p == pivot(df)
    IN [error |-> p.error, ret |-> p.ret, sea_data |-> data]

---------------------------------------------------------------------------
(* Chart C, the export and import trend: src/app.py lines 425-440 *)

chart_c(data, country) ==
    LET sel == SelectSeq(data, LAMBDA r : r.country = country)
        ys == SortedInts({sel[k].year : k \in 1..Len(sel)})
        plot_df == [k \in 1..Len(ys) |->
                      [year |-> ys[k],
                       import_USD |-> GroupSum(sel, "year", ys[k], "import_USD"),
                       export_USD |-> GroupSum(sel, "year", ys[k], "export_USD")]]
    IN [error |-> "none", ret |-> plot_df, sea_data |-> data]

---------------------------------------------------------------------------
(* Chart D, the scatter with its OLS line: src/app.py lines 447-472 *)

\* the fraction n / d in lowest terms, with a positive denominator
Rat(n, d) ==
    LET g == Gcd(Abs(n), Abs(d))
        sgn == IF d < 0 THEN -1 ELSE 1
    IN [num |-> sgn * (IF n >= 0 THEN n \div g ELSE -((-n) \div g)),
        den |-> Abs(d) \div g]

NumSamples == 100

\* np.polyfit(x, y, 1) in exact arithmetic.  x and y hold amounts in units
\* of 1/Scale dollars, so b1 is a pure ratio and b0 is in the same units.
\*  - var(x) > 0: the least-squares line, b1 = cov(x, y) / var(x) and
\*    b0 = mean(y) - b1 * mean(x);
\*  - all x equal to a # 0: the system has rank 1 and lstsq returns the
\*    solution of least norm of the column-scaled system, which is
\*    b1 = mean(y) / (2a), b0 = mean(y) / 2 (polyfit only warns);
\*  - all x equal to 0: the column scaling divides 0 by 0 and lstsq gets a
\*    matrix holding NaN; it raises LinAlgError or returns NaN
\*    coefficients, as the LAPACK of this build does (lapack_nan).
polyfit(x, y) ==
    LET n == Len(x)
        Sx == SumSeq(x)
        Sy == SumSeq(y)
        Sxx == SumSeq([k \in 1..n |-> x[k] * x[k]])
        Sxy == SumSeq([k \in 1..n |-> x[k] * y[k]])
        varN == n * Sxx - Sx * Sx
        covN == n * Sxy - Sx * Sy
    IN IF varN # 0
       THEN [error |-> "none",
             b1 |-> Rat(covN, varN),
             b0 |-> Rat(Sy * varN - covN * Sx, n * varN)]
       ELSE IF Sx # 0
       THEN [error |-> "none", b1 |-> Rat(Sy, 2 * Sx), b0 |-> Rat(Sy, 2 * n)]
       ELSE IF lapack_nan = "raise"
       THEN [error |-> "LinAlgError: SVD did not converge in Linear Least Squares",
             b1 |-> NaN, b0 |-> NaN]
       ELSE [error |-> "none", b1 |-> NaN, b0 |-> NaN]

NoFit == [present |-> FALSE]

chart_d(data, country, year) ==
    LET df == Filt(data, country, year)
        points == [k \in 1..Len(df) |-> <<df[k].export_USD, df[k].import_USD>>]
        x == [k \in 1..Len(df) |-> df[k].export_USD]
        y == [k \in 1..Len(df) |-> df[k].import_USD]
        fit == polyfit(x, y)
    IN IF Len(df) >= 2
       THEN IF fit.error # "none"
            THEN [error |-> fit.error, ret |-> <<>>, sea_data |-> data]
            ELSE [error |-> "none",
                  ret |-> [points |-> points,
                           fit |-> [present |-> TRUE, b1 |-> fit.b1, b0 |-> fit.b0,
                                    x_min |-> SetMin(Range(x)), x_max |-> SetMax(Range(x)),
                                    samples |-> NumSamples]],
                  sea_data |-> data]
       ELSE [error |-> "none", ret |-> [points |-> points, fit |-> NoFit], sea_data |-> data]

---------------------------------------------------------------------------
(* Inputs *)

\* The library behaviours a build can have.  No callback reads lapack_nan
\* together with observed or sort_ties, so these four builds produce every
\* return value the eight combinations can produce.
Builds ==
    {[observed |-> TRUE, sort_ties |-> "first", lapack_nan |-> "raise"],
     [observed |-> TRUE, sort_ties |-> "last", lapack_nan |-> "nan"],
     [observed |-> FALSE, sort_ties |-> "first", lapack_nan |-> "nan"],
     [observed |-> FALSE, sort_ties |-> "last", lapack_nan |-> "raise"]}

\* Observations of the aggregation specification: two partners of Malaysia
\* in 2020 (one with a zero export), a second priority country in a second
\* year, and two countries outside the priority list, one of them with
\* fractional amounts above a thousand dollars and a balance column that is
\* not export - import.
Observations ==
    {Obs("Malaysia", "China", Num(2020), 100 * Scale, 50 * Scale, 50 * Scale),
     Obs("Malaysia", "Japan", Num(2020), 0, 1, -1),
     Obs("Indonesia", "Japan", Num(2021), 4 * Scale, Scale, 3 * Scale),
     Obs("Vietnam", "China", Num(2020), Scale + 1, 1000 * Scale + 1, -1000 * Scale),
     Obs("Brunei", "China", Num(2020), 1, 3, -2)}

\* Rows of the loader specification: complete rows, a year that is text, a
\* year that is a numeric string, and an empty cell
LoaderRows(header) ==
    {CsvRow(header, Obs("Malaysia", "China", Num(2020), 3, 1, 2), "none"),
     CsvRow(header, Obs("Vietnam", "Japan", Str("2021"), 2, 2, 0), "none"),
     CsvRow(header, Obs("Malaysia", "Japan", Str("n/a"), 1, 1, 0), "none"),
     CsvRow(header, Obs("Malaysia", "Japan", Num(2020), 1, 5, -4), "partner_name"),
     CsvRow(header, Obs("Malaysia", "China", Str("n/a"), 1, 1, 0), "export_USD")}

Headers == {Header8, Header7, Header9}

LoaderFiles ==
    UNION {{CsvFile(h, rows) : rows \in SeqUpTo(LoaderRows(h), 1)} : h \in Headers}

\* Rows of the wide specification: one row per partner for Malaysia in
\* 2020, the amounts of the first three chosen freely and the others
\* following a pattern with repeated totals, then a second row of the
\* second partner and one row of another year.
WideAmounts == {0, 3, 7}

WideFile(v) ==
    CsvFile(Header8,
        [k \in 1..(NumPartners + 2) |->
            IF k <= NumPartners
            THEN CsvRow(Header8,
                        Obs("Malaysia", PartnerNames[k], Num(2020),
                            IF k <= 3 THEN v[k] ELSE (k * 5) % 7,
                            IF k <= 3 THEN 1 ELSE k % 3,
                            0), "none")
            ELSE IF k = NumPartners + 1
            THEN CsvRow(Header8, Obs("Malaysia", PartnerNames[2], Num(2020), 2, 2, 0), "none")
            ELSE CsvRow(Header8, Obs("Malaysia", PartnerNames[1], Num(2021), 2, 2, 0), "none")])

\* the filter values the callbacks are run with: options of the dropdown
\* and positions of the slider
ModelCountries == {"Malaysia", "Vietnam"}
ModelYears == {2020, 2022}

CountryInputs == Range(COUNTRY_CHOICES) \cap ModelCountries
YearInputs == (YEAR_MIN..YEAR_MAX) \cap ModelYears

---------------------------------------------------------------------------
(* The state machine *)

NoCall == [view |-> "none", country |-> "none", year |-> 0, error |-> "none", ret |-> <<>>]

\* the outputs of the page that show an aggregation, named by their callbacks
Views == {"chart_a", "chart_b", "chart_c", "chart_d", "kpis", "update_table",
          "update_top_partners", "chart_g"}

\* no request waiting for a view
NoRequest == [country |-> "none", year |-> 0]

\* a graph, card or table the layout creates without content
Blank == [drawn |-> FALSE, ret |-> <<>>]

InitCommon ==
    /\ pc = "start"
    /\ error = "none"
    /\ sea_data = <<>>
    /\ COUNTRY_CHOICES = <<>>
    /\ YEAR_MIN = 0
    /\ YEAR_MAX = 0
    /\ \E b \in Builds :
          /\ observed = b.observed
          /\ sort_ties = b.sort_ties
          /\ lapack_nan = b.lapack_nan
    /\ out = NoCall
    /\ selected_country = "none"
    /\ selected_year = 0
    /\ pending = [v \in Views |-> NoRequest]
    /\ shown = [v \in Views |-> Blank]
    /\ changes = 0

Init ==
    /\ \E obs \in SeqUpTo(Observations, MaxRows) :
          file_list = <<CsvFile(Header8,
                                [k \in 1..Len(obs) |-> CsvRow(Header8, obs[k], "none")])>>
    /\ InitCommon

InitLoad ==
    /\ file_list \in SeqUpTo(LoaderFiles, MaxFiles)
    /\ InitCommon

InitWide ==
    /\ \E v \in [1..3 -> WideAmounts] : file_list = <<WideFile(v)>>
    /\ InitCommon

\* a callback with both filter values as inputs
Returned(view, country, year, r) ==
    /\ out' = [view |-> view, country |-> country, year |-> year,
               error |-> r.error, ret |-> r.ret]
    /\ sea_data' = r.sea_data
    /\ UNCHANGED <<file_list, pc, error, COUNTRY_CHOICES, YEAR_MIN, YEAR_MAX,
                   observed, sort_ties, lapack_nan>>
    /\ UNCHANGED page

Run_chart_a ==
    /\ pc = "running"
    /\ \E year \in YearInputs : Returned("chart_a", "none", 0, chart_a(sea_data))

Run_chart_b ==
    /\ pc = "running"
    /\ \E year \in YearInputs : Returned("chart_b", "none", 0, chart_b(sea_data))

Run_chart_c ==
    /\ pc = "running"
    /\ \E country \in CountryInputs :
          Returned("chart_c", country, 0, chart_c(sea_data, country))

Run_chart_d ==
    /\ pc = "running"
    /\ \E country \in CountryInputs, year \in YearInputs :
          Returned("chart_d", country, year, chart_d(sea_data, country, year))

Run_kpis ==
    /\ pc = "running"
    /\ \E country \in CountryInputs, year \in YearInputs :
          Returned("kpis", country, year, kpis(sea_data, country, year))

Run_update_table ==
    /\ pc = "running"
    /\ \E country \in CountryInputs, year \in YearInputs :
          Returned("update_table", country, year, update_table(sea_data, country, year))

Run_update_top_partners ==
    /\ pc = "running"
    /\ \E country \in CountryInputs, year \in YearInputs :
          Returned("update_top_partners", country, year,
                   update_top_partners(sea_data, country, year))

Run_chart_g ==
    /\ pc = "running"
    /\ \E country \in CountryInputs, year \in YearInputs :
          Returned("chart_g", country, year, chart_g(sea_data, country, year))

Next ==
    \/ Load
    \/ Run_chart_a
    \/ Run_chart_b
    \/ Run_chart_c
    \/ Run_chart_d
    \/ Run_kpis
    \/ Run_update_table
    \/ Run_update_top_partners
    \/ Run_chart_g

Spec == Init /\ [][Next]_vars

SpecLoad == InitLoad /\ [][Next]_vars

SpecWide == InitWide /\ [][Next]_vars

---------------------------------------------------------------------------
(* Reference computations for the properties: a full scan of sea_data,     *)
(* written without the frame operations of the callbacks.                  *)

Matching(country, year) ==
    {k \in 1..Len(sea_data) : sea_data[k].country = country /\ sea_data[k].year = year}

\* the sum of column col over the rows of sea_data whose index is in S
ScanTotal(S, col) ==
    LET F[k \in 0..Len(sea_data)] ==
            IF k = 0 THEN 0
            ELSE F[k - 1] + (IF k \in S THEN sea_data[k][col] ELSE 0)
    IN F[Len(sea_data)]

\* the integer a formatted KPI string denotes
ValueOf(f) ==
    LET F[k \in 0..Len(f.groups)] ==
            IF k = 0 THEN 0 ELSE 1000 * F[k - 1] + f.groups[k]
    IN (IF f.neg THEN -1 ELSE 1) * F[Len(f.groups)]

Called(view) == pc = "running" /\ out.view = view

---------------------------------------------------------------------------
(* C1: kpis *)

\* C1 as stated: the four values kpis returns are the sums over the matching
\* records, and satisfy total_trade = total_export + total_import and
\* trade_balance = total_export - total_import.
C1_AsStated ==
    Called("kpis") =>
        LET S == Matching(out.country, out.year)
            v == [k \in 1..4 |-> ValueOf(out.ret[k])]
        IN /\ v[1] * Scale = ScanTotal(S, "export_USD") + ScanTotal(S, "import_USD")
           /\ v[2] * Scale = ScanTotal(S, "export_USD")
           /\ v[3] * Scale = ScanTotal(S, "import_USD")
           /\ v[4] * Scale = ScanTotal(S, "export_USD") - ScanTotal(S, "import_USD")
           /\ v[1] = v[2] + v[3]
           /\ v[4] = v[2] - v[3]

\* C1 amended: each value kpis returns is the sum over the matching records
\* (export + import, export, import, export - import) truncated toward zero
\* to whole dollars and formatted with thousands separators.  The returned
\* values therefore satisfy both identities when every matching amount is a
\* whole number of dollars, and otherwise differ from them by at most 1:
\* total_trade - (total_export + total_import) is 0 or 1 and
\* trade_balance - (total_export - total_import) is -1, 0 or 1.
C1_KpisTruncatedSums ==
    Called("kpis") =>
        LET S == Matching(out.country, out.year)
            E == ScanTotal(S, "export_USD")
            I == ScanTotal(S, "import_USD")
            v == [k \in 1..4 |-> ValueOf(out.ret[k])]
            whole == \A k \in S : /\ sea_data[k].export_USD % Scale = 0
                                  /\ sea_data[k].import_USD % Scale = 0
        IN /\ out.error = "none"
           /\ out.ret = <<fmt(E + I), fmt(E), fmt(I), fmt(E - I)>>
           /\ v[1] = TruncDiv(E + I, Scale)
           /\ v[2] = TruncDiv(E, Scale)
           /\ v[3] = TruncDiv(I, Scale)
           /\ v[4] = TruncDiv(E - I, Scale)
           /\ v[1] - (v[2] + v[3]) \in {0, 1}
           /\ v[4] - (v[2] - v[3]) \in {-1, 0, 1}
           /\ whole => (v[1] = v[2] + v[3] /\ v[4] = v[2] - v[3])

\* kpis ran on a filter matching several records, with fractional amounts
\* that make the returned total_trade exceed total_export + total_import,
\* and a total that needs a thousands separator
C1_Witness ==
    /\ Called("kpis")
    /\ Cardinality(Matching(out.country, out.year)) >= 2
    /\ ValueOf(out.ret[1]) = ValueOf(out.ret[2]) + ValueOf(out.ret[3]) + 1
    /\ Len(out.ret[1].groups) = 2

---------------------------------------------------------------------------
(* C3: update_table *)

\* C3: the filtered table has exactly one row per record of the dataset whose
\* country and year equal the filter, in the order of the dataset, and each
\* row's trade_value is that record's export_USD + import_USD.
C3_TableRowsInOrder ==
    Called("update_table") =>
        LET idx == SortedInts(Matching(out.country, out.year))
            rows == out.ret.data
        IN /\ out.error = "none"
           /\ Len(rows) = Len(idx)
           /\ \A j \in 1..Len(idx) :
                 LET r == sea_data[idx[j]]
                 IN /\ rows[j]["country"] = r.country
                    /\ rows[j]["partner_name"] = r.partner_name
                    /\ rows[j]["year"] = r.year
                    /\ rows[j]["export_USD"] = r.export_USD
                    /\ rows[j]["import_USD"] = r.import_USD
                    /\ rows[j]["trade_value"] = r.export_USD + r.import_USD

\* the table was built from two different matching records that have a
\* record of another country or year between them
C3_Witness ==
    /\ Called("update_table")
    /\ Len(out.ret.data) = 2
    /\ out.ret.data[1] # out.ret.data[2]
    /\ Len(sea_data) = 3
    /\ 2 \notin Matching(out.country, out.year)

---------------------------------------------------------------------------
(* C2: update_top_partners against chart_g *)

\* C2: the top-partners result has at most 10 rows, in non-increasing order
\* of total_trade, and each of its rows is a row of the partner-contribution
\* result for the same filter, with the same four values.
C2_TopPartners ==
    Called("update_top_partners") =>
        LET top == out.ret
            contribution == chart_g(sea_data, out.country, out.year).ret
        IN /\ out.error = "none"
           /\ Len(top) <= 10
           /\ \A j \in 1..(Len(top) - 1) : top[j].total_trade >= top[j + 1].total_trade
           /\ \A j \in 1..Len(top) :
                 \E k \in 1..Len(contribution) :
                    /\ contribution[k].partner_name = top[j].partner_name
                    /\ contribution[k].total_export = top[j].total_export
                    /\ contribution[k].total_import = top[j].total_import
                    /\ contribution[k].total_trade = top[j].total_trade

\* top-partners ran on a filter with more than 10 partner groups and
\* returned 10 rows, not all of the same total
C2_Witness ==
    /\ Called("update_top_partners")
    /\ Len(chart_g(sea_data, out.country, out.year).ret) > 10
    /\ Len(out.ret) = 10
    /\ out.ret[1].total_trade > out.ret[10].total_trade
    /\ \E j \in 1..9 : out.ret[j].total_trade = out.ret[j + 1].total_trade

---------------------------------------------------------------------------
(* C11: the order of equal totals in update_top_partners *)

\* the position of a partner's group before the sort: groupby orders the
\* groups by the categories of partner_name
GroupPosition(name) == IndexOf(PartnerNames, name)

\* a total shared by a row that was kept and a group that was cut
StraddlingTie ==
    LET top == out.ret
        groups == chart_g(sea_data, out.country, out.year).ret
    IN /\ Len(groups) > TopK
       /\ \E k \in 1..Len(groups) :
             /\ groups[k].total_trade = top[Len(top)].total_trade
             /\ \A j \in 1..Len(top) : top[j].partner_name # groups[k].partner_name

\* C11 as stated: in the top-partners result two partners of equal
\* total_trade appear in the order their groups had before the sort, and
\* when a tie straddles the cut at position 10 the partners kept are the
\* ones that come first in that group order.
C11_AsStated ==
    Called("update_top_partners") =>
        LET top == out.ret
            groups == chart_g(sea_data, out.country, out.year).ret
        IN /\ \A j, k \in 1..Len(top) :
                 (j < k /\ top[j].total_trade = top[k].total_trade) =>
                    GroupPosition(top[j].partner_name) < GroupPosition(top[k].partner_name)
           /\ \A g \in 1..Len(groups) :
                 (\A j \in 1..Len(top) : top[j].partner_name # groups[g].partner_name) =>
                    \A j \in 1..Len(top) :
                       top[j].total_trade = groups[g].total_trade =>
                          GroupPosition(top[j].partner_name)
                             < GroupPosition(groups[g].partner_name)

---------------------------------------------------------------------------
(* C4: chart_a *)

PresentPairs ==
    {<<sea_data[k].country, sea_data[k].year>> : k \in 1..Len(sea_data)}

PairTotal(c, y) ==
    ScanTotal(Matching(c, y), "export_USD") + ScanTotal(Matching(c, y), "import_USD")

\* C4 as stated: every (country, year) pair present in the dataset has a
\* group in the chart_a result whose trade_value is the sum of export_USD +
\* import_USD over the records of that pair.
C4_AsStated ==
    Called("chart_a") =>
        \A p \in PresentPairs :
            \E k \in 1..Len(out.ret.df) :
                /\ out.ret.df[k].country = p[1]
                /\ out.ret.df[k].year = p[2]
                /\ out.ret.df[k].trade_value = PairTotal(p[1], p[2])

\* C4 amended: chart_a keeps only the records of Malaysia, Indonesia,
\* Singapore and Thailand.  For each (country, year) pair present in the
\* dataset whose country is one of these four, the result has exactly one
\* group, whose trade_value is the full-scan sum of export_USD + import_USD
\* over the records of the pair, and the bar of that country and year has
\* that height; the countries' traces are in the order Malaysia, Indonesia,
\* Singapore, Thailand.  No other country has a group or a trace.
C4_PriorityCountryTotals ==
    Called("chart_a") =>
        LET df == out.ret.df
            traces == out.ret.traces
        IN /\ out.error = "none"
           /\ \A p \in PresentPairs :
                 IF p[1] \in Range(priority)
                 THEN /\ Cardinality({k \in 1..Len(df) :
                                        df[k].country = p[1] /\ df[k].year = p[2]}) = 1
                      /\ \A k \in 1..Len(df) :
                            (df[k].country = p[1] /\ df[k].year = p[2])
                               => df[k].trade_value = PairTotal(p[1], p[2])
                      /\ \E t \in 1..Len(traces) :
                            /\ traces[t].name = p[1]
                            /\ \E j \in 1..Len(traces[t].x) :
                                  /\ traces[t].x[j] = p[2]
                                  /\ traces[t].y[j] = PairTotal(p[1], p[2])
                 ELSE /\ \A k \in 1..Len(df) : df[k].country # p[1]
                      /\ \A t \in 1..Len(traces) : traces[t].name # p[1]
           /\ \A t \in 1..Len(traces) : traces[t].name \in Range(priority)
           /\ \A t, u \in 1..Len(traces) :
                 t < u => IndexOf(priority, traces[t].name) < IndexOf(priority, traces[u].name)

\* chart_a ran on a dataset with records of Malaysia, of Indonesia (which
\* sorts before Malaysia as a label) and of a country outside the list
C4_Witness ==
    /\ Called("chart_a")
    /\ Len(out.ret.traces) = 2
    /\ \E k \in 1..Len(sea_data) : sea_data[k].country \notin Range(priority)

---------------------------------------------------------------------------
(* C5: a filter that matches no record *)

AllZero(rows) ==
    \A k \in 1..Len(rows) :
        rows[k].total_export = 0 /\ rows[k].total_import = 0 /\ rows[k].total_trade = 0

Zero == [neg |-> FALSE, groups |-> <<0>>]

PartnerLabels == {sea_data[k].partner_name : k \in 1..Len(sea_data)}

\* C5 as stated: when the (country, year) filter matches no record, no
\* aggregation fails, kpis returns four zeros, and the table, top-partners,
\* partner-contribution, scatter and trend results are empty.
C5_AsStated ==
    /\ (pc = "running" /\ out.view \in {"kpis", "update_table", "update_top_partners",
                                         "chart_g", "chart_d"}
           /\ Matching(out.country, out.year) = {})
          => /\ out.error = "none"
             /\ out.view = "kpis" => out.ret = <<Zero, Zero, Zero, Zero>>
             /\ out.view = "update_table" => out.ret.data = <<>>
             /\ out.view = "update_top_partners" => out.ret = <<>>
             /\ out.view = "chart_g" => out.ret = <<>>
             /\ out.view = "chart_d" => out.ret.points = <<>> /\ out.ret.fit = NoFit
    /\ (Called("chart_c") /\ \E y \in YearInputs : Matching(out.country, y) = {})
          => out.error = "none" /\ out.ret = <<>>

\* C5 amended: when the (country, year) filter matches no record, no
\* aggregation fails; kpis returns four zeros; the filtered table and the
\* scatter are empty and the scatter has no fit line; the top-partners and
\* partner-contribution results hold no partner with a non-zero total: they
\* have no row where groupby keeps the observed groups only, and otherwise
\* one all-zero row per partner label of the dataset (the first 10 of them
\* in top-partners).  The trend result depends on the country alone and is
\* empty exactly when the country has no record in any year.
C5_NoMatch ==
    /\ (pc = "running" /\ out.view \in {"kpis", "update_table", "update_top_partners",
                                         "chart_g", "chart_d"}
           /\ Matching(out.country, out.year) = {})
          => /\ out.error = "none"
             /\ out.view = "kpis" => out.ret = <<Zero, Zero, Zero, Zero>>
             /\ out.view = "update_table" => out.ret.data = <<>>
             /\ out.view = "chart_d" => out.ret.points = <<>> /\ out.ret.fit = NoFit
             /\ out.view = "update_top_partners" =>
                   /\ AllZero(out.ret)
                   /\ Len(out.ret) = IF observed THEN 0
                                     ELSE Min(10, Cardinality(PartnerLabels))
             /\ out.view = "chart_g" =>
                   /\ AllZero(out.ret)
                   /\ Len(out.ret) = IF observed THEN 0 ELSE Cardinality(PartnerLabels)
    /\ Called("chart_c") =>
          /\ out.error = "none"
          /\ (out.ret = <<>>) <=> (\A k \in 1..Len(sea_data) : sea_data[k].country # out.country)

\* top-partners ran with the default filter (Malaysia, YEAR_MAX) on data
\* that ends before YEAR_MAX and returned rows, all of them zero
C5_Witness ==
    /\ Called("update_top_partners")
    /\ out.country = "Malaysia"
    /\ out.year = YEAR_MAX
    /\ Matching(out.country, out.year) = {}
    /\ Len(out.ret) >= 2

---------------------------------------------------------------------------
(* C6 and C7: the loader *)

InputRows ==
    LET F[k \in 0..Len(file_list)] ==
            IF k = 0 THEN <<>> ELSE F[k - 1] \o file_list[k].rows
    IN F[Len(file_list)]

Complete(row) == \A c \in DOMAIN row : row[c] # NaN

NumericYear(row) == row["year"].t = "num" \/ row["year"] = Str("2021")

EightColumnSchema ==
    /\ file_list # <<>>
    /\ \A k \in 1..Len(file_list) : Range(file_list[k].columns) = Range(Header8)

Aligned ==
    \A j, k \in 1..Len(file_list) :
        Range(file_list[j].columns) = Range(file_list[k].columns)

AllColumns == UNION {Range(file_list[k].columns) : k \in 1..Len(file_list)}

\* C7 as stated (its "whenever" half): loading ends in a fatal error when
\* there is no file or the files' columns do not align to one schema.
C7_AsStated ==
    (pc # "start" /\ (file_list = <<>> \/ ~Aligned)) => pc = "crashed"

\* C7 amended: loading ends in the fatal error "No objects to concatenate"
\* exactly when the directory holds no matching file, and in the fatal error
\* "Length mismatch" exactly when there are files and the union of their
\* column names does not have eight members; in both cases no dataset is
\* produced.  Files whose columns differ but name eight columns between them
\* raise neither error: the rows of a file that lacks a column are dropped
\* as incomplete.
C7_SchemaErrors ==
    pc # "start" =>
        /\ (error = "ValueError: No objects to concatenate") <=> (file_list = <<>>)
        /\ (error = "ValueError: Length mismatch")
              <=> (file_list # <<>> /\ Cardinality(AllColumns) # 8)
        /\ (file_list = <<>> \/ Cardinality(AllColumns) # 8)
              => (pc = "crashed" /\ sea_data = <<>>)
        /\ pc = "running" => error = "none"

\* two files with different columns were loaded into a dataset
C7_Witness ==
    /\ pc = "running"
    /\ ~Aligned
    /\ sea_data # <<>>
    /\ Len(InputRows) = 2

---------------------------------------------------------------------------
(* C8: the callbacks leave sea_data alone *)

ViewResult(view, data, country, year) ==
    CASE view = "chart_a" -> chart_a(data)
      [] view = "chart_b" -> chart_b(data)
      [] view = "chart_c" -> chart_c(data, country)
      [] view = "chart_d" -> chart_d(data, country, year)
      [] view = "kpis" -> kpis(data, country, year)
      [] view = "update_table" -> update_table(data, country, year)
      [] view = "update_top_partners" -> update_top_partners(data, country, year)
      [] view = "chart_g" -> chart_g(data, country, year)

\* C8: while the callbacks run, sea_data is the dataset as loaded (same
\* rows, columns and values), and what the last callback returned is what
\* it returns on the dataset as loaded with its own arguments, whatever
\* calls ran before it.
C8_DatasetUnchanged ==
    pc = "running" =>
        LET loaded == LoadResult(file_list).sea_data
        IN /\ sea_data = loaded
           /\ out.view # "none" =>
                 LET r == ViewResult(out.view, loaded, out.country, out.year)
                 IN out.error = r.error /\ out.ret = r.ret

\* update_table, which adds a column to its own copy, has run and returned rows
C8_Witness ==
    /\ Called("update_table")
    /\ Len(out.ret.data) >= 1
    /\ \A k \in 1..Len(sea_data) : "trade_value" \notin DOMAIN sea_data[k]

---------------------------------------------------------------------------
(* C9: chart_d *)

\* C9 as stated: chart_d returns without error, draws the fit line exactly
\* when at least 2 records match, and the line has a slope and an intercept,
\* which are cov(export, import) / var(export) and
\* mean(import) - slope * mean(export) (where var(export) is not 0, so that
\* the quotient is defined), over [min export, max export].
C9_AsStated ==
    Called("chart_d") =>
        LET S == Matching(out.country, out.year)
            n == Cardinality(S)
            Sx == ScanTotal(S, "export_USD")
            Sy == ScanTotal(S, "import_USD")
            Sxx == SumSeq([k \in 1..Len(sea_data) |->
                      IF k \in S THEN sea_data[k].export_USD * sea_data[k].export_USD ELSE 0])
            Sxy == SumSeq([k \in 1..Len(sea_data) |->
                      IF k \in S THEN sea_data[k].export_USD * sea_data[k].import_USD ELSE 0])
            varN == n * Sxx - Sx * Sx
            covN == n * Sxy - Sx * Sy
        IN /\ out.error = "none"
           /\ out.ret.fit.present <=> (n >= 2)
           /\ out.ret.fit.present =>
                 /\ out.ret.fit.b1 # NaN
                 /\ out.ret.fit.b0 # NaN
                 /\ varN # 0 =>
                       /\ out.ret.fit.b1.num * varN = covN * out.ret.fit.b1.den
                       /\ out.ret.fit.b0.num * (n * varN)
                             = (Sy * varN - covN * Sx) * out.ret.fit.b0.den
                 /\ out.ret.fit.x_min = SetMin({sea_data[k].export_USD : k \in S})
                 /\ out.ret.fit.x_max = SetMax({sea_data[k].export_USD : k \in S})

---------------------------------------------------------------------------
(* C10: chart_b *)

\* C10 as stated, for the four countries of the matrix: the balance matrix
\* is built without error; every (country, year) with a record has a cell
\* holding the sum of trade_balance_USD over those records; and (in a build
\* whose groupby keeps the observed groups only) a pair with no record has
\* an absent cell.
C10_AsStated ==
    Called("chart_b") =>
        /\ out.error = "none"
        /\ \A p \in PresentPairs :
              p[1] \in Range(priority) =>
                 /\ p \in DOMAIN out.ret.z
                 /\ out.ret.z[p] = Num(ScanTotal(Matching(p[1], p[2]), "trade_balance_USD"))
        /\ observed =>
              \A p \in DOMAIN out.ret.z :
                 (p[1] \in Range(priority) /\ p \notin PresentPairs) => out.ret.z[p] = NaN

---------------------------------------------------------------------------
(* The page: the two filter widgets, and the callbacks as Dash runs them.  *)
(* Dash runs a callback when one of its Inputs changes (and once for every *)
(* callback when the page opens), passes it the values of all its Inputs,  *)
(* and writes what it returns to its Outputs; when it raises, the Outputs  *)
(* keep what they had. A newer request for the same Outputs replaces one   *)
(* that has not been answered.                                             *)

\* the Inputs of each callback, from its decorator
callback_inputs ==
    [v \in Views |->
        CASE v \in {"chart_a", "chart_b"} -> {"selected_year"}
          [] v = "chart_c" -> {"selected_country"}
          [] OTHER -> {"selected_country", "selected_year"}]

\* the requests a change of the widget named input makes, the values of
\* the two widgets being country and year after it
Requests(input, country, year) ==
    [v \in Views |->
        IF input \in callback_inputs[v]
        THEN [country |-> country, year |-> year]
        ELSE pending[v]]

\* one file of two records of the countries the dropdown is moved between,
\* the first of them of the default country
PageFiles ==
    {<<CsvFile(Header8, [k \in 1..2 |-> CsvRow(Header8, obs[k], "none")])>> :
        obs \in {o \in [1..2 -> Observations] :
                    o[1].country = "Malaysia" /\ o[2].country \in ModelCountries}}

InitPage ==
    /\ file_list \in PageFiles
    /\ InitCommon

\* the browser opens the page: the widgets take the values of the layout
\* and every callback is requested once
Open_page ==
    /\ pc = "running"
    /\ selected_country = "none"
    /\ selected_country' = "Malaysia"
    /\ selected_year' = YEAR_MAX
    /\ pending' = [v \in Views |-> [country |-> "Malaysia", year |-> YEAR_MAX]]
    /\ UNCHANGED <<file_list, pc, error, sea_data, COUNTRY_CHOICES, YEAR_MIN,
                   YEAR_MAX, observed, sort_ties, lapack_nan, out, shown, changes>>

\* the user picks another option of the dropdown
Select_country ==
    /\ pc = "running"
    /\ selected_country # "none"
    /\ changes < MaxChanges
    /\ \E country \in CountryInputs \ {selected_country} :
          /\ selected_country' = country
          /\ pending' = Requests("selected_country", country, selected_year)
    /\ changes' = changes + 1
    /\ UNCHANGED <<file_list, pc, error, sea_data, COUNTRY_CHOICES, YEAR_MIN,
                   YEAR_MAX, observed, sort_ties, lapack_nan, out,
                   selected_year, shown>>

\* the user moves the slider
Select_year ==
    /\ pc = "running"
    /\ selected_country # "none"
    /\ changes < MaxChanges
    /\ \E year \in YearInputs \ {selected_year} :
          /\ selected_year' = year
          /\ pending' = Requests("selected_year", selected_country, year)
    /\ changes' = changes + 1
    /\ UNCHANGED <<file_list, pc, error, sea_data, COUNTRY_CHOICES, YEAR_MIN,
                   YEAR_MAX, observed, sort_ties, lapack_nan, out,
                   selected_country, shown>>

\* Dash runs the callback of a view with the values of its request and
\* updates the view with what it returns
Callback ==
    /\ pc = "running"
    /\ \E v \in Views :
          /\ pending[v] # NoRequest
          /\ LET country == pending[v].country
                 year == pending[v].year
                 r == ViewResult(v, sea_data, country, year)
             IN /\ sea_data' = r.sea_data
                /\ shown' = IF r.error = "none"
                            THEN [shown EXCEPT ![v] = [drawn |-> TRUE, ret |-> r.ret]]
                            ELSE shown
          /\ pending' = [pending EXCEPT ![v] = NoRequest]
    /\ UNCHANGED <<file_list, pc, error, COUNTRY_CHOICES, YEAR_MIN, YEAR_MAX,
                   observed, sort_ties, lapack_nan, out,
                   selected_country, selected_year, changes>>

NextPage ==
    \/ Load
    \/ Open_page
    \/ Select_country
    \/ Select_year
    \/ Callback

SpecPage == InitPage /\ [][NextPage]_vars

---------------------------------------------------------------------------
(* C12: the views after the filter changes *)

\* the page is open and no callback request is waiting
Settled ==
    /\ pc = "running"
    /\ selected_country # "none"
    /\ \A v \in Views : pending[v] = NoRequest

\* C12 as stated: from the default filter (Malaysia, YEAR_MAX) and after
\* any sequence of changes of the selected country and year, once the
\* callbacks the changes requested have run, every view shows the result of
\* its aggregation on the current filter values.
C12_AsStated ==
    Settled =>
        \A v \in Views :
            LET r == ViewResult(v, sea_data, selected_country, selected_year)
            IN /\ r.error = "none"
               /\ shown[v] = [drawn |-> TRUE, ret |-> r.ret]

\* the views whose aggregation returns on the current filter values show
\* its result
ReturnedViewsCurrent ==
    Settled =>
        \A v \in Views :
            LET r == ViewResult(v, sea_data, selected_country, selected_year)
            IN r.error = "none" => shown[v] = [drawn |-> TRUE, ret |-> r.ret]

====
